---- MODULE Spec2Model ----
(***************************************************************************)
(* IceCave: an in-memory list of records kept in an Immutable.js List      *)
(* (src/icecave.js).  The handle's operations push / remove / set / get /  *)
(* find / filter / first / last act on the closure variable `core`.        *)
(*                                                                         *)
(* JavaScript values are records [t, v]:                                   *)
(*   num   a number                 null   the value null                  *)
(*   undef the value undefined      obj    a plain object {a: v}           *)
(*   arr   a plain array [v]        Map    Immutable.Map {a: v}            *)
(*   List  Immutable.List [v]       ref    a reference to the caller's     *)
(*                                         plain object at heap address v  *)
(* A plain object written by value (obj/arr) is an object nobody else      *)
(* holds a reference to: a literal passed to a call, or a fresh copy built *)
(* by toJS().  The objects the caller keeps and may mutate at any time     *)
(* live in `heap` (each starts as {a: 1}) and are passed around as refs.   *)
(*                                                                         *)
(* The constructor, the flush timer and the data file are modelled with    *)
(* the directory, the file's content, the process's require.cache and the  *)
(* fs.writeFile calls that have not finished.  Spec explores the handle's  *)
(* methods on one store; SpecDisk construction, ticks and writes, failing  *)
(* ones included; SpecCaller every method next to the timer; SpecLive the  *)
(* timer running for ever.                                                 *)
(***************************************************************************)
EXTENDS Integers, Sequences, FiniteSets

VARIABLES core,     \* let core (line 60): the Immutable.List, as a sequence
          heap,     \* the caller's own plain objects, by address
          op,       \* name of the last handle operation called
          idx,      \* index argument of the last set / remove (0 otherwise)
          ret,      \* value returned by the last call
          threw,    \* TRUE when the last call raised a TypeError
          retList,  \* elements of the array returned by filter
          mutated,  \* the caller has mutated the value the last call returned
          shape,    \* what core is: "List", or "num" / "null" when the file
                    \* held a JSON document that is no array
          phase,    \* "none": no store yet, "live": the newest store is in
                    \* use, "crashed": an uncaught exception ended the process
          dirExists, \* fs.existsSync(dir)
          file,     \* what <dir>/<name>.json holds
          cache,    \* require.cache entry of <dir>/<name>.json in this process
          inflight, \* the fs.writeFile calls not finished yet, oldest first
          olds,     \* the stores constructed earlier (their timers still run)
          created   \* number of create() calls so far

disk == <<shape, phase, dirExists, file, cache, inflight, olds, created>>

vars == <<core, heap, op, idx, ret, threw, retList, mutated,
          shape, phase, dirExists, file, cache, inflight, olds, created>>

MaxLen == 3      \* largest size of the List that is explored
MaxAddr == 1     \* number of plain objects the caller keeps references to
MaxDiskLen == 2  \* largest size of the List while the disk is explored
MaxInflight == 2 \* largest number of unfinished writes that is explored
MaxStores == 2   \* largest number of create() calls that is explored

Addr == 1..MaxAddr
IndexRange == (0 - MaxLen)..MaxLen

Undefined == [t |-> "undef", v |-> 0]
Null == [t |-> "null", v |-> 0]
Num(n) == [t |-> "num", v |-> n]
Obj(n) == [t |-> "obj", v |-> n]
Arr(n) == [t |-> "arr", v |-> n]
IMap(n) == [t |-> "Map", v |-> n]
IList(n) == [t |-> "List", v |-> n]
Ref(a) == [t |-> "ref", v |-> a]
ArrayOf(n) == [t |-> "array", v |-> n]

\* Records of the JSON data model a caller may pass to push / set.
Records == {Num(1), Null, Arr(1)} \cup {Ref(a) : a \in Addr}

\* The plain value a JavaScript value denotes (what deep-equal compares).
Plain(x, h) == IF x.t = "ref" THEN h[x.v] ELSE x


(***************************************************************************)
(* Immutable.js, as icecave.js uses it                                     *)
(***************************************************************************)

\* Immutable.fromJS: a plain object becomes a Map, a plain array a List,
\* both built from the content (a deep copy); anything else is kept as is.
fromJS(val, h) ==
    LET c == Plain(val, h)
    IN  IF c.t = "obj" THEN IMap(c.v)
        ELSE IF c.t = "arr" THEN IList(c.v)
        ELSE val

\* Collection#toJS: a fresh plain object / array with the same content.
toJS(item) ==
    IF item.t = "Map" THEN Obj(item.v)
    ELSE IF item.t = "List" THEN Arr(item.v)
    ELSE item

\* wrapIndex: a negative index counts from the end of the List.
wrapIndex(list, index) == IF index < 0 THEN Len(list) + index ELSE index

\* List#has
ListHas(list, index) ==
    LET i == wrapIndex(list, index) IN i >= 0 /\ i < Len(list)

\* List#get: the element, or undefined outside the List.
ListGet(list, index) ==
    LET i == wrapIndex(list, index)
    IN  IF i >= 0 /\ i < Len(list) THEN list[i + 1] ELSE Undefined

Holes(n) == [j \in 1..n |-> Undefined]

\* List#set: inside the List it replaces the element; at or beyond the end it
\* grows the List up to the index; below the start (wrapped index negative)
\* it grows the List at the front and writes index 0.
ListSet(list, index, value) ==
    LET i == wrapIndex(list, index)
    IN  IF i >= 0 /\ i < Len(list) THEN [list EXCEPT ![i + 1] = value]
        ELSE IF i < 0 THEN <<value>> \o Holes((0 - i) - 1) \o list
        ELSE list \o Holes(i - Len(list)) \o <<value>>

\* List#splice(index, 1): index resolved against the size, then cut out.
ListSplice1(list, index) ==
    LET size == Len(list)
        b == IF index < 0
             THEN (IF size + index < 0 THEN 0 ELSE size + index)
             ELSE (IF index > size THEN size ELSE index)
    IN  SubSeq(list, 1, b) \o SubSeq(list, b + 2, size)

\* List#delete: nothing without has(index); shift, pop or splice otherwise.
ListDelete(list, index) ==
    IF ~ListHas(list, index) THEN list
    ELSE IF index = 0 THEN Tail(list)
    ELSE IF index = Len(list) - 1 THEN SubSeq(list, 1, Len(list) - 1)
    ELSE ListSplice1(list, index)

(***************************************************************************)
(* icecave.js                                                              *)
(***************************************************************************)

\* item.toJS on undefined or null: a TypeError.
unpackThrows(item) == item.t \in {"undef", "null"}

\* unpack (lines 74-76): item.toJS ? item.toJS() : item
unpack(item) == IF item.t \in {"Map", "List"} THEN toJS(item) ELSE item

\* Predicates a caller passes to find / filter, applied to a plain value:
\*   any    item => true            none   item => false
\*   a1     item => item.a === 1    isnum  item => typeof item === 'number'
\*   touch  item => { item.a = 2; return false }
Preds == {"any", "none", "a1", "isnum", "touch"}

Pred(fn, x) ==
    CASE fn = "any" -> TRUE
      [] fn = "none" -> FALSE
      [] fn = "a1" -> x.t = "obj" /\ x.v = 1
      [] fn = "isnum" -> x.t = "num"
      [] fn = "touch" -> FALSE

\* The outcome of unpack(item) as a call's result.
Returns(item) ==
    /\ threw' = unpackThrows(item)
    /\ ret' = IF unpackThrows(item) THEN Undefined ELSE unpack(item)
    /\ retList' = <<>>
    /\ mutated' = FALSE

NoResult ==
    /\ threw' = FALSE
    /\ ret' = Undefined
    /\ retList' = <<>>
    /\ mutated' = FALSE

(***************************************************************************)
(* The file <dir>/<name>.json and the JSON text in it.  A file is a record *)
(*   k    absent   no such file          empty  zero bytes (just truncated)*)
(*        garbage  text that is no JSON  mixed  bytes of two writes        *)
(*        array    a JSON array          num    the JSON document 1        *)
(*        null     the JSON document null                                  *)
(*   d    the elements of the array (plain values), <<>> otherwise         *)
(*   len  the number of bytes in the file                                  *)
(***************************************************************************)

\* Bytes JSON.stringify writes for one element: 1, null, {"a":1}, [1].
ElLen(x) ==
    CASE x.t = "num" -> 1
      [] x.t = "null" -> 4
      [] x.t = "obj" -> 7
      [] x.t = "arr" -> 3

RECURSIVE ElsLen(_)
ElsLen(d) == IF d = <<>> THEN 0 ELSE ElLen(Head(d)) + ElsLen(Tail(d))

\* Bytes of the text of an array: brackets, elements, commas between them.
TextLen(d) == 2 + ElsLen(d) + (IF Len(d) > 1 THEN Len(d) - 1 ELSE 0)

Absent == [k |-> "absent", d |-> <<>>, len |-> 0]
Empty == [k |-> "empty", d |-> <<>>, len |-> 0]
Garbage == [k |-> "garbage", d |-> <<>>, len |-> 3]
NumDoc == [k |-> "num", d |-> <<>>, len |-> 1]
NullDoc == [k |-> "null", d |-> <<>>, len |-> 4]
ArrayDoc(d) == [k |-> "array", d |-> d, len |-> TextLen(d)]
Mixed(n) == [k |-> "mixed", d |-> <<>>, len |-> n]

\* JSON.parse accepts the text.
Parses(f) == f.k \in {"array", "num", "null"}

\* No entry in require.cache.
NoCache == [k |-> "none", d |-> <<>>, len |-> 0]

\* JSON.stringify(core.toJS()) (line 261): deep plain copy; an undefined
\* element of an array is written as null.
Serialize(list, h) ==
    [i \in 1..Len(list) |->
        LET x == Plain(toJS(list[i]), h)
        IN  IF x.t = "undef" THEN Null ELSE x]

\* Immutable.fromJS(data) (line 60) of a parsed array.
Load(d, h) == [i \in 1..Len(d) |-> fromJS(d[i], h)]

\* A store just constructed (lines 47-60) with List c, from the file it
\* found (none when c is empty); nothing written yet.
Constructed(c) ==
    /\ core = c
    /\ heap = [a \in Addr |-> Obj(1)]
    /\ op = "create"
    /\ idx = 0
    /\ ret = Undefined
    /\ threw = FALSE
    /\ retList = <<>>
    /\ mutated = FALSE
    /\ shape = "List"
    /\ phase = "live"
    /\ dirExists = TRUE
    /\ file = (IF c = <<>> THEN Absent ELSE ArrayDoc(Serialize(c, heap)))
    /\ cache = (IF c = <<>> THEN NoCache ELSE file)
    /\ inflight = <<>>
    /\ olds = {}
    /\ created = 1

\* A store constructed in an empty directory.
Init == Constructed(<<>>)

\* A store constructed in an empty directory, or on the file [[1],1].
InitLoaded ==
    \E c \in {<<>>, <<fromJS(Arr(1), heap), fromJS(Num(1), heap)>>} : Constructed(c)

\* push without the Immutable.fromJS conversion: the caller's own value is
\* stored.
PushRaw(val) ==
    /\ Len(core) < MaxLen
    /\ core' = Append(core, val)
    /\ op' = "push"
    /\ idx' = 0
    /\ threw' = FALSE
    /\ ret' = Num(Len(core') - 1)
    /\ retList' = <<>>
    /\ mutated' = FALSE
    /\ UNCHANGED <<heap, disk>>

\* push that writes the file through at once.
PushFlush(val) ==
    /\ Len(core) < MaxLen
    /\ core' = Append(core, fromJS(val, heap))
    /\ op' = "push"
    /\ idx' = 0
    /\ threw' = FALSE
    /\ ret' = Num(Len(core') - 1)
    /\ retList' = <<>>
    /\ mutated' = FALSE
    /\ file' = ArrayDoc(Serialize(core', heap))
    /\ UNCHANGED <<heap, shape, phase, dirExists, cache, inflight, olds, created>>

\* push (lines 93-96)
Push(val) ==
    /\ Len(core) < MaxLen
    /\ core' = Append(core, fromJS(val, heap))
    /\ op' = "push"
    /\ idx' = 0
    /\ threw' = FALSE
    /\ ret' = Num(Len(core') - 1)
    /\ retList' = <<>>
    /\ mutated' = FALSE
    /\ UNCHANGED <<heap, disk>>

\* remove that overwrites the slot instead of deleting it (a tombstone).
RemoveTombstone(index) ==
    /\ core' = IF ListHas(core, index) THEN ListSet(core, index, Undefined) ELSE core
    /\ op' = "remove"
    /\ idx' = index
    /\ NoResult
    /\ UNCHANGED <<heap, disk>>

\* remove through core.splice(index, 1) instead of core.delete(index).
RemoveSplice(index) ==
    /\ core' = ListSplice1(core, index)
    /\ op' = "remove"
    /\ idx' = index
    /\ NoResult
    /\ UNCHANGED <<heap, disk>>

\* remove (lines 117-119)
Remove(index) ==
    /\ core' = ListDelete(core, index)
    /\ op' = "remove"
    /\ idx' = index
    /\ NoResult
    /\ UNCHANGED <<heap, disk>>

\* set (lines 141-143)
Set(index, val) ==
    /\ Len(ListSet(core, index, fromJS(val, heap))) <= MaxLen
    /\ core' = ListSet(core, index, fromJS(val, heap))
    /\ op' = "set"
    /\ idx' = index
    /\ NoResult
    /\ UNCHANGED <<heap, disk>>

\* get (line 164)
Get(index) ==
    /\ op' = "get"
    /\ idx' = 0
    /\ Returns(ListGet(core, index))
    /\ UNCHANGED <<core, heap, disk>>

\* first (line 233); List#first is the element at index 0, or undefined
First ==
    /\ op' = "first"
    /\ idx' = 0
    /\ Returns(ListGet(core, 0))
    /\ UNCHANGED <<core, heap, disk>>

\* last (line 254); List#last is the element at index size-1, or undefined
Last ==
    /\ op' = "last"
    /\ idx' = 0
    /\ Returns(ListGet(core, 0 - 1))
    /\ UNCHANGED <<core, heap, disk>>


\* Index (from 1) at which the scan of core.find stops: the first item whose
\* unpack throws inside the predicate or for which fn holds; 0 when the scan
\* runs off the end.
FindStop(fn) ==
    LET stops == {i \in 1..Len(core) :
                     \/ unpackThrows(core[i])
                     \/ Pred(fn, Plain(unpack(core[i]), heap))}
    IN  IF stops = {} THEN 0 ELSE CHOOSE i \in stops : \A j \in stops : i <= j

\* What the predicate fn does to the caller's objects while the items
\* 1..upto are handed to it: "touch" assigns item.a = 2, which changes those
\* handed items that are the caller's own objects (a copy made by toJS is
\* dropped when the predicate returns).
PredEffect(fn, upto) ==
    [a \in Addr |->
        IF fn = "touch" /\ \E i \in 1..upto : unpack(core[i]) = Ref(a)
        THEN [heap[a] EXCEPT !.v = 2]
        ELSE heap[a]]

\* find (line 188): unpack(core.find(item => fn(unpack(item))))
Find(fn) ==
    LET k == FindStop(fn)
    IN  /\ op' = "find"
        /\ idx' = 0
        /\ Returns(IF k = 0 THEN Undefined ELSE core[k])
        /\ heap' = PredEffect(fn, IF k = 0 THEN Len(core) ELSE k)
        /\ UNCHANGED <<core, disk>>

\* filter (line 212): unpack(core.filter(item => fn(unpack(item))))
Filter(fn) ==
    LET bad == {i \in 1..Len(core) : unpackThrows(core[i])}
        Test(item) == Pred(fn, Plain(unpack(item), heap))
        kept == SelectSeq(core, Test)
    IN  /\ op' = "filter"
        /\ idx' = 0
        /\ threw' = (bad # {})
        /\ ret' = IF bad # {} THEN Undefined ELSE ArrayOf(Len(kept))
        /\ retList' = IF bad # {} THEN <<>>
                      ELSE [j \in 1..Len(kept) |-> unpack(kept[j])]
        /\ mutated' = FALSE
        /\ heap' = PredEffect(fn, IF bad = {} THEN Len(core)
                                   ELSE CHOOSE i \in bad : \A j \in bad : i <= j)
        /\ UNCHANGED <<core, disk>>

(***************************************************************************)
(* The caller's own code between two calls                                 *)
(***************************************************************************)

\* The caller assigns to a field of an object it keeps.
CallerMutate(a, n) ==
    /\ heap[a].v # n
    /\ heap' = [heap EXCEPT ![a].v = n]
    /\ UNCHANGED <<core, op, idx, ret, threw, retList, mutated, disk>>

\* The caller assigns to a field of the value get / find / first / last
\* returned (once per returned value).
CallerMutateRet(n) ==
    /\ ~threw
    /\ ~mutated
    /\ ret.t \in {"obj", "arr", "ref"}
    /\ Plain(ret, heap).v # n
    /\ IF ret.t = "ref"
       THEN heap' = [heap EXCEPT ![ret.v].v = n] /\ ret' = ret
       ELSE ret' = [ret EXCEPT !.v = n] /\ heap' = heap
    /\ mutated' = TRUE
    /\ UNCHANGED <<core, op, idx, threw, retList, disk>>

\* The caller assigns to a field of one element of the array filter returned
\* (once per returned array).
CallerMutateRetElem(j, n) ==
    /\ ~mutated
    /\ j \in 1..Len(retList)
    /\ retList[j].t \in {"obj", "arr", "ref"}
    /\ Plain(retList[j], heap).v # n
    /\ IF retList[j].t = "ref"
       THEN heap' = [heap EXCEPT ![retList[j].v].v = n] /\ retList' = retList
       ELSE retList' = [retList EXCEPT ![j].v = n] /\ heap' = heap
    /\ mutated' = TRUE
    /\ UNCHANGED <<core, op, idx, ret, threw, disk>>

Next ==
    \/ \E val \in Records : Push(val)
    \/ \E index \in IndexRange : Remove(index)
    \/ \E index \in IndexRange : \E val \in Records : Set(index, val)
    \/ \E index \in IndexRange : Get(index)
    \/ \E fn \in Preds : Find(fn)
    \/ \E fn \in Preds : Filter(fn)
    \/ First
    \/ Last
    \/ \E a \in Addr : \E n \in 1..2 : CallerMutate(a, n)
    \/ \E n \in 1..2 : CallerMutateRet(n)
    \/ \E j \in 1..MaxLen : \E n \in 1..2 : CallerMutateRetElem(j, n)

Spec == Init /\ [][Next]_vars

(***************************************************************************)
(* Construction, the flush timer and the file                              *)
(*                                                                         *)
(* fs.writeFile(path, text) without a callback, on the Node.js releases    *)
(* that accept the call (before 10): the file is opened with flag 'w',     *)
(* which truncates it, then the text is written from offset 0, then the    *)
(* default callback runs, which rethrows an error of the write.  The two   *)
(* I/O steps of one call and those of other calls run in any order.        *)
(***************************************************************************)

\* The stores whose timers run: the newest one and the earlier ones.
Stores ==
    olds \cup (IF phase = "live" THEN {[shape |-> shape, core |-> core]} ELSE {})

\* require(path) (line 49) returns a value: the module is in require.cache
\* or the file parses.
RequireOk == cache.k # "none" \/ Parses(file)

\* The value require(path) returns: the cached one when there is one.
RequireValue == IF cache.k # "none" THEN cache ELSE file

\* const data (lines 47-53): [] when require throws.
Data == IF RequireOk THEN RequireValue ELSE ArrayDoc(<<>>)

\* The constructor body after the directory check (lines 47-60, 264).
Construct ==
    /\ threw' = FALSE
    /\ cache' = (IF RequireOk THEN RequireValue ELSE cache)
    /\ core' = (IF Data.k = "array" THEN Load(Data.d, heap) ELSE <<>>)
    /\ shape' = (IF Data.k = "array" THEN "List" ELSE Data.k)
    /\ olds' = Stores
    /\ phase' = "live"

\* The constructor without the fs.existsSync check.
CreateNoCheck ==
    /\ phase # "crashed"
    /\ created < MaxStores
    /\ created' = created + 1
    /\ op' = "create"
    /\ idx' = 0
    /\ ret' = Undefined
    /\ retList' = <<>>
    /\ mutated' = FALSE
    /\ Construct
    /\ UNCHANGED <<heap, dirExists, file, inflight>>

\* create(dir, name) (lines 309-311): new IceCave(dir, name) (lines 29-276).
Create ==
    /\ phase # "crashed"
    /\ created < MaxStores
    /\ created' = created + 1
    /\ op' = "create"
    /\ idx' = 0
    /\ ret' = Undefined
    /\ retList' = <<>>
    /\ mutated' = FALSE
    /\ IF ~dirExists
       THEN /\ threw' = TRUE
            /\ UNCHANGED <<core, shape, phase, cache, olds>>
       ELSE Construct
    /\ UNCHANGED <<heap, dirExists, file, inflight>>

\* One run of `write` (lines 260-262) on the timer of store s (line 264).
\* core.toJS() throws on a core that is no collection: uncaught, in a timer.
Tick(s) ==
    /\ phase # "crashed"
    /\ s \in Stores
    /\ IF s.shape = "List"
       THEN /\ Len(inflight) < MaxInflight
            /\ inflight' = Append(inflight,
                    [snap |-> Serialize(s.core, heap), st |-> "queued"])
            /\ phase' = phase
       ELSE /\ phase' = "crashed"
            /\ inflight' = inflight
    /\ UNCHANGED <<core, heap, op, idx, ret, threw, retList, mutated,
                   shape, dirExists, file, cache, olds, created>>

\* The sequence without its i-th element.
Without(q, i) == SubSeq(q, 1, i - 1) \o SubSeq(q, i + 1, Len(q))

\* Text of `snap` written from offset 0 into file f: what was beyond its
\* end stays.
Overwrite(f, snap) ==
    IF f.len <= TextLen(snap) THEN ArrayDoc(snap) ELSE Mixed(f.len)

\* fs.writeFile, first step: open(path, 'w') creates or truncates the file.
WriteOpen(i) ==
    /\ phase # "crashed"
    /\ i \in 1..Len(inflight)
    /\ inflight[i].st = "queued"
    /\ file' = Empty
    /\ inflight' = [inflight EXCEPT ![i].st = "open"]
    /\ UNCHANGED <<core, heap, op, idx, ret, threw, retList, mutated,
                   shape, phase, dirExists, cache, olds, created>>

\* fs.writeFile, second step: the text is written and the call is over.
WriteLand(i) ==
    /\ phase # "crashed"
    /\ i \in 1..Len(inflight)
    /\ inflight[i].st = "open"
    /\ file' = Overwrite(file, inflight[i].snap)
    /\ inflight' = Without(inflight, i)
    /\ UNCHANGED <<core, heap, op, idx, ret, threw, retList, mutated,
                   shape, phase, dirExists, cache, olds, created>>

\* fs.writeFile fails (at open or at write): the default callback throws
\* the error, which nothing catches.
WriteFail(i) ==
    /\ phase # "crashed"
    /\ i \in 1..Len(inflight)
    /\ inflight' = Without(inflight, i)
    /\ phase' = "crashed"
    /\ UNCHANGED <<core, heap, op, idx, ret, threw, retList, mutated,
                   shape, dirExists, file, cache, olds, created>>

\* The names of the handle's methods (lines 266-275).
OpNames == {"push", "remove", "set", "get", "find", "filter", "first", "last"}

\* A method of the handle on a core that is no collection (core.push is not
\* a function, ...): a TypeError.
OpOnNonList(name) ==
    /\ phase = "live"
    /\ shape # "List"
    /\ op' = name
    /\ idx' = 0
    /\ threw' = TRUE
    /\ ret' = Undefined
    /\ retList' = <<>>
    /\ mutated' = FALSE
    /\ UNCHANGED <<core, heap, disk>>

\* The handle of the newest store is usable as a List.
LiveList == phase = "live" /\ shape = "List"

\* A call of the handle that changes the List, kept within MaxDiskLen.
CallerWrite ==
    \/ LiveList /\ Len(core) < MaxDiskLen /\ Push(Num(1))
    \/ LiveList /\ Remove(0)
    \/ LiveList /\ Len(core) < MaxDiskLen /\ Set(0, Num(1))

\* A call of the handle that reads the List.
CallerRead ==
    \/ LiveList /\ Get(0)
    \/ LiveList /\ Find("any")
    \/ LiveList /\ Filter("any")
    \/ LiveList /\ First
    \/ LiveList /\ Last

\* The process starts: no store, the directory there or not, the file
\* absent, no JSON, an array, or a JSON document that is no array.
InitDisk ==
    /\ core = <<>>
    /\ heap = [a \in Addr |-> Obj(1)]
    /\ op = "none"
    /\ idx = 0
    /\ ret = Undefined
    /\ threw = FALSE
    /\ retList = <<>>
    /\ mutated = FALSE
    /\ shape = "List"
    /\ phase = "none"
    /\ dirExists \in BOOLEAN
    /\ file \in (IF dirExists
                 THEN {Absent, Garbage, ArrayDoc(<<Num(1)>>), NumDoc, NullDoc}
                 ELSE {Absent})
    /\ cache = NoCache
    /\ inflight = <<>>
    /\ olds = {}
    /\ created = 0

NextDisk ==
    \/ Create
    \/ CallerWrite
    \/ \E name \in OpNames : OpOnNonList(name)
    \/ \E s \in Stores : Tick(s)
    \/ \E i \in 1..MaxInflight : WriteOpen(i)
    \/ \E i \in 1..MaxInflight : WriteLand(i)
    \/ \E i \in 1..MaxInflight : WriteFail(i)

SpecDisk == InitDisk /\ [][NextDisk]_vars


(***************************************************************************)
(* Properties                                                              *)
(***************************************************************************)

\* The Sequence as every read and every flush sees it.
SeqView == [i \in 1..Len(core) |-> Plain(core[i], heap)]

\* What get(k) returns on the List `list` with the caller's objects `h`:
\* nothing when it throws.
GetOk(list, k) == ~unpackThrows(ListGet(list, k))
GetValue(list, h, k) == Plain(unpack(ListGet(list, k)), h)

\* C1: a read of an absent element (get outside 0..size-1, first / last on an
\* empty Sequence) completes normally and returns undefined.
C1_AbsentReadsReturnUndefined ==
    [][(\/ \E i \in IndexRange : Get(i) /\ (i < 0 \/ i >= Len(core))
        \/ (First /\ Len(core) = 0)
        \/ (Last /\ Len(core) = 0))
       => (~threw' /\ ret' = Undefined)]_vars

\* C2: push(v) on a Sequence of size n returns n, appends at index n, leaves
\* elements 0..n-1 unchanged, and get(n) right after returns a value
\* deep-equal to v, for every Record v.
C2_PushThenGet ==
    [][\A val \in Records :
         Push(val) =>
           /\ ret' = Num(Len(core))
           /\ Len(core') = Len(core) + 1
           /\ SubSeq(core', 1, Len(core)) = core
           /\ GetOk(core', Len(core))
           /\ GetValue(core', heap', Len(core)) = Plain(val, heap)]_vars

\* C3: the store shares no object with the caller, and no mutation the
\* caller performs on a value it passed in, got back, or was handed in a
\* predicate changes the Sequence.
C3_StoredForm == \A i \in 1..Len(core) : core[i].t \notin {"ref", "obj", "arr"}

C3_CallerStep ==
    \/ \E a \in Addr : \E n \in 1..2 : CallerMutate(a, n)
    \/ \E n \in 1..2 : CallerMutateRet(n)
    \/ \E j \in 1..MaxLen : \E n \in 1..2 : CallerMutateRetElem(j, n)
    \/ Find("touch")
    \/ Filter("touch")

C3_CopyIsolation ==
    /\ []C3_StoredForm
    /\ [][C3_CallerStep => SeqView' = SeqView]_vars

\* C3 witness: first() returned a copy of a stored {a: 1}, the caller has
\* set a = 2 on that copy and on every object it ever passed in, and the
\* store still holds {a: 1}.
C3_Witness ==
    /\ op = "first"
    /\ mutated
    /\ ret = Obj(2)
    /\ ListGet(core, 0) = IMap(1)
    /\ \A a \in Addr : heap[a] = Obj(2)


\* C4: set(k, v) with 0 <= k < size replaces only the element at k: size is
\* unchanged, every other index keeps its element, and get(k) returns v.
C4_SetReplacesOnlyK ==
    [][\A k \in IndexRange : \A val \in Records :
         (Set(k, val) /\ 0 <= k /\ k < Len(core)) =>
           /\ Len(core') = Len(core)
           /\ \A j \in 1..Len(core) : j # k + 1 => core'[j] = core[j]
           /\ GetOk(core', k)
           /\ GetValue(core', heap', k) = Plain(val, heap)]_vars

\* C5: set(k, v) with k outside 0..size-1 leaves the Sequence as it was.
C5_SetOutOfRangeNoOp ==
    [][\A k \in IndexRange : \A val \in Records :
         (Set(k, val) /\ (k < 0 \/ k >= Len(core))) => core' = core]_vars

\* C6: remove(k) with 0 <= k < size removes exactly the element at k: the
\* size drops by one, elements below k stay, and the element formerly at
\* j+1 is now at j for every j >= k.
C6_RemoveRenumbers ==
    [][\A k \in IndexRange :
         (Remove(k) /\ 0 <= k /\ k < Len(core)) =>
           /\ Len(core') = Len(core) - 1
           /\ \A j \in 1..Len(core') :
                 core'[j] = IF j < k + 1 THEN core[j] ELSE core[j + 1]]_vars

\* C6 witness: remove(idx) took an element out of the middle: elements are
\* left on both sides of idx.
C6_Witness ==
    /\ op = "remove"
    /\ idx >= 1
    /\ idx < Len(core)

C8_Dense == \A i \in 1..Len(core) : core[i] # Undefined

\* The indices (from 1) of the elements for which the predicate fn is true.
Satisfying(fn) == {i \in 1..Len(core) : Pred(fn, toJS(Plain(core[i], heap)))}

\* C9: find(p) returns the element with the lowest index for which p is
\* true, and undefined, without an error, when there is none.
C9_FindLowest ==
    [][\A fn \in Preds :
         Find(fn) =>
           /\ ~threw'
           /\ IF Satisfying(fn) = {} THEN ret' = Undefined
              ELSE \E i \in Satisfying(fn) :
                     /\ \A j \in Satisfying(fn) : i <= j
                     /\ Plain(ret', heap') = toJS(Plain(core[i], heap))]_vars

\* C10: filter(p) returns exactly the elements for which p is true, in
\* ascending index order, an empty array when there is none, never an
\* error, and leaves the Sequence unchanged.
C10_FilterExact ==
    [][\A fn \in Preds :
         Filter(fn) =>
           LET Sat(item) == Pred(fn, toJS(Plain(item, heap)))
               want == SelectSeq(core, Sat)
           IN  /\ ~threw'
               /\ ret' = ArrayOf(Len(want))
               /\ Len(retList') = Len(want)
               /\ \A j \in 1..Len(want) :
                     Plain(retList'[j], heap') = toJS(Plain(want[j], heap))
               /\ core' = core]_vars

\* One store, constructed, with every method of its handle and its timer;
\* no write fails.
NextCaller ==
    \/ CallerWrite
    \/ CallerRead
    \/ \E s \in Stores : Tick(s)
    \/ \E i \in 1..MaxInflight : WriteOpen(i)
    \/ \E i \in 1..MaxInflight : WriteLand(i)

SpecCaller == InitLoaded /\ [][NextCaller]_vars

\* One store whose caller mutates it, its timer firing again and again
\* (setInterval, line 264, never cleared) and every step of every write
\* taken in the end: no write fails or hangs.
NextLive ==
    \/ CallerWrite
    \/ \E s \in Stores : Tick(s)
    \/ \E i \in 1..MaxInflight : WriteOpen(i)
    \/ \E i \in 1..MaxInflight : WriteLand(i)

Fairness ==
    /\ WF_vars(\E s \in Stores : Tick(s))
    /\ \A i \in 1..MaxInflight : WF_vars(WriteOpen(i))
    /\ \A i \in 1..MaxInflight : WF_vars(WriteLand(i))

SpecLive == InitLoaded /\ [][NextLive]_vars /\ Fairness

(***************************************************************************)
(* Properties of construction, the flush timer and the file                *)
(***************************************************************************)

\* C11: create() on a directory that does not exist throws at once: the
\* caller gets no handle, the file is not read (nothing enters the require
\* cache), no timer is started, and no write ever results.
C11_NoDirectoryNoStore ==
    /\ [][(Create /\ ~dirExists)
          => (threw' /\ phase' = "none"
              /\ UNCHANGED <<core, shape, cache, inflight, file, olds>>)]_vars
    /\ [](~dirExists => (/\ phase = "none"
                         /\ Stores = {}
                         /\ cache = NoCache
                         /\ inflight = <<>>
                         /\ file = Absent))

C11_Witness == ~dirExists /\ op = "create" /\ threw /\ created = MaxStores


\* C12: create() on an existing directory whose file is absent or holds no
\* JSON succeeds, raises nothing, and the new store's Sequence is empty.
C12_MissingFileEmptyStore ==
    [][(Create /\ dirExists /\ ~Parses(file))
       => (~threw' /\ phase' = "live" /\ shape' = "List" /\ core' = <<>>)]_vars

\* C13: whenever create() runs while the file holds a JSON array A, the new
\* store's Sequence is A, element for element; so a store constructed after
\* a flush of S has landed starts with S, also when this process constructed
\* a store for the same path before.
C13_RoundTrip ==
    [][(Create /\ dirExists /\ file.k = "array")
       => (/\ ~threw'
           /\ phase' = "live"
           /\ shape' = "List"
           /\ core' = Load(file.d, heap)
           /\ Serialize(core', heap) = file.d)]_vars

\* C14: every tick of a constructed store starts exactly one write, of the
\* serialization of that store's Sequence as it is at the tick, whatever has
\* or has not changed since the last tick and whatever writes are still
\* unfinished, and the timers keep running.
C14_TickStartsOneWrite ==
    [][\A s \in Stores :
         Tick(s) => (/\ inflight' = Append(inflight,
                            [snap |-> Serialize(s.core, heap), st |-> "queued"])
                     /\ phase' = phase
                     /\ Stores' = Stores)]_vars

\* C15: a write that fails is dropped silently: the Sequence and the file
\* stay as they are, the write is not retried, no call of the handle fails
\* for it, and the timers keep running (later ticks still start writes).
C15_FailedWriteDropped ==
    [][\A i \in 1..MaxInflight :
         WriteFail(i) => (/\ core' = core
                          /\ file' = file
                          /\ inflight' = Without(inflight, i)
                          /\ threw' = threw
                          /\ phase' = phase
                          /\ Stores' = Stores)]_vars

Snaps(q) == {q[i].snap : i \in 1..Len(q)}

\* C17: every write carries the Sequence as captured at its own tick, which
\* no later mutation changes, and the file only ever changes to exactly such
\* a snapshot: its content is always what it was before the first write
\* landed or the Sequence of some past tick, never anything else.
C17_SnapshotConsistency ==
    [][/\ \A s \in Stores :
            Tick(s) => Snaps(inflight') = Snaps(inflight) \cup {Serialize(s.core, heap)}
       /\ (~\E s \in Stores : Tick(s)) => Snaps(inflight') \subseteq Snaps(inflight)
       /\ file' # file
            => \E i \in 1..Len(inflight) : file' = ArrayDoc(inflight[i].snap)]_vars

\* C18: writes that overlap are not ordered and the one that completes last
\* wins: whenever a write completes, whichever its place among the
\* unfinished ones, the file holds that write's snapshot.
C18_LastToCompleteWins ==
    [][\A i \in 1..MaxInflight :
         WriteLand(i) => file' = ArrayDoc(inflight[i].snap)]_vars

\* The file holds exactly the serialization of the in-memory Sequence.
FileIsCore == file = ArrayDoc(Serialize(core, heap))

\* C19: if from some point on the caller makes no mutating call, while ticks
\* keep firing and every write completes, then from some point on the file
\* holds the in-memory Sequence and keeps holding it for ever.
C19_EventualPersistence ==
    (<>[][~CallerWrite]_vars) => <>[]FileIsCore

\* C20: every constructed store's Sequence is an ordered list whatever the
\* file holds, a JSON document that is no array included, so that every
\* method of the handle is usable.
C20_AlwaysAList == \A s \in Stores : s.shape = "List"

====
